---- MODULE Spec2Model ----
(***************************************************************************)
(* Model of the frequent-item clustering (src/utils/frequent-items.ts)     *)
(* and of the goal-direction colour coding (src/components/Totals.tsx).    *)
(*                                                                         *)
(* Numbers: the source computes in IEEE doubles.  Every quantity compared  *)
(* here is a quotient of two small integers compared with a short decimal  *)
(* literal, so the comparison is decided exactly by cross-multiplication   *)
(* (correct rounding is monotone, and a quotient that equals the literal   *)
(* as a rational rounds to the same double as the literal).  Division by   *)
(* zero is kept: it yields NaN or an infinity, and the comparisons below   *)
(* give the outcome JavaScript gives for those values.                     *)
(***************************************************************************)
EXTENDS Integers, Sequences, FiniteSets, TLC

VARIABLES
    \* ---- getFrequentItems ----
    allData,              \* caller's collection: the per-date lists, in key order
    minOccurrences,       \* parameter
    maxItems,             \* parameter
    similarityThreshold,  \* parameter, a rational <<num, den>>
    pc,                   \* position inside getFrequentItems
    allEntries,           \* local: Object.values(allData).flat()
    groups,               \* local: FoodEntry[][]
    idx,                  \* local: position of the for-of loop over allEntries
    result,               \* returned list (frequentGroups)
    origin,               \* for each returned item, the index in groups it was mapped from
    prevResult,           \* what the previous call on the same input returned
    runs,                 \* number of calls started on this input
    \* ---- Totals / WeeklyChart ----
    totals,               \* [calories, protein]: the day's actual intake
    targetCalories,
    targetProtein,
    maintenanceCalories,
    calorieColor,         \* Totals: stroke of the calorie donut
    proteinColor,         \* Totals: stroke of the protein donut
    caloriesBar,          \* WeeklyChart: frontColor of the day's calorie bar
    proteinBar,           \* WeeklyChart: frontColor of the day's protein bar
    \* ---- weekly aggregation ----
    weekLogs,             \* for each day of the week window, the meals logged on it
    today,                \* CURRENT_DATE as a day of the window (0: the day before it)
    weekMaintenance,      \* maintenance calories of the user
    coachAnalytics,       \* the row get_coach_analytics returns for the user
    weekSummary,          \* what the coaching handler pre-calculates
    \* ---- calls of the clustering primitives ----
    firstEntry,           \* first argument of areNutritionallySimilar
    secondEntry,          \* second argument of areNutritionallySimilar
    gateResult,           \* what areNutritionallySimilar returned
    nameParts,            \* the words and the form a name was written from
    firstName,            \* the tokenized name, first argument of calculateSimilarity
    secondName,           \* second argument of calculateSimilarity
    words,                \* what getWords returned for firstName
    similarity,           \* calculateSimilarity of the names, in both orders
    \* ---- offline queue ----
    online,               \* navigator.onLine
    offlineQueue,         \* the cache entry CACHE_KEYS.offlineQueue
    nextOp,               \* the next operation the user will queue
    procs,                \* the runs of processQueue: position and locals
    dbApplied,            \* per operation, the database calls that succeeded
    dbCalls               \* database calls issued so far

clusterVars == <<allData, minOccurrences, maxItems, similarityThreshold, pc,
                 allEntries, groups, idx, result, origin, prevResult, runs>>
colorVars == <<totals, targetCalories, targetProtein, maintenanceCalories,
               calorieColor, proteinColor, caloriesBar, proteinBar>>
weeklyVars == <<weekLogs, today, weekMaintenance, coachAnalytics, weekSummary>>
gateVars == <<firstEntry, secondEntry, gateResult>>
textVars == <<nameParts, firstName, secondName, words, similarity>>
queueVars == <<online, offlineQueue, nextOp, procs, dbApplied, dbCalls>>
otherVars == <<weeklyVars, gateVars, textVars, queueVars>>
vars == <<clusterVars, colorVars, otherVars>>

(***************************************************************************)
(* Bounds of the model.                                                    *)
(***************************************************************************)
MaxEntries == 4      \* records in the caller's collection
MaxDates == 2        \* date keys in the caller's collection
MaxActual == 44      \* largest actual intake of a day (calories, protein)
MaxEdgeEntries == 3  \* records of a collection made of near-duplicate foods
WeekDays == 4        \* days of the week window (7 in the program)
MaxNutrient == 20    \* largest calories or protein of a compared record
MaxOps == 3          \* operations the user queues
MaxRuns == 2         \* calls of processQueue
MaxWords == 3        \* words a generated name is written from

\* ------------------------------------------------------------------------
\* Generic helpers
\* ------------------------------------------------------------------------
Abs(x) == IF x < 0 THEN -x ELSE x
Max(a, b) == IF a >= b THEN a ELSE b

RECURSIVE SumSeq(_)
SumSeq(s) == IF s = <<>> THEN 0 ELSE Head(s) + SumSeq(Tail(s))

Range(s) == {s[i] : i \in 1..Len(s)}

\* ------------------------------------------------------------------------
\* Text: a string is a sequence of one-character strings
\* ------------------------------------------------------------------------
Uppers == <<"A","B","C","D","E","F","G","H","I","J","K","L","M",
            "N","O","P","Q","R","S","T","U","V","W","X","Y","Z">>
Lowers == <<"a","b","c","d","e","f","g","h","i","j","k","l","m",
            "n","o","p","q","r","s","t","u","v","w","x","y","z">>

\* String.prototype.toLowerCase, one character
ToLowerChar(c) ==
    IF \E i \in 1..Len(Uppers) : Uppers[i] = c
    THEN Lowers[CHOOSE i \in 1..Len(Uppers) : Uppers[i] = c]
    ELSE c

\* String.prototype.toLowerCase
ToLowerCase(text) == [i \in 1..Len(text) |-> ToLowerChar(text[i])]

\* the characters the regular expression \s matches (those the names use)
IsSpace(c) == c \in {" ", "\t", "\n"}

\* text.split(/\s+/): the pieces between maximal runs of whitespace; a
\* leading or trailing run leaves an empty piece, the empty string gives [""]
RECURSIVE SplitFrom(_, _, _, _)
SplitFrom(text, i, cur, inSpace) ==
    IF i > Len(text) THEN <<cur>>
    ELSE IF IsSpace(text[i])
         THEN IF inSpace
              THEN SplitFrom(text, i + 1, cur, TRUE)
              ELSE <<cur>> \o SplitFrom(text, i + 1, <<>>, TRUE)
         ELSE SplitFrom(text, i + 1, Append(cur, text[i]), FALSE)

SplitSpaces(text) == SplitFrom(text, 1, <<>>, FALSE)

COMMON_WORDS ==
    { <<"a">>, <<"a","n">>, <<"t","h","e">>, <<"o","f">>, <<"w","i","t","h">>,
      <<"a","n","d">>, <<"o","r">>, <<"i","n">>, <<"o","n">>, <<"a","t">>,
      <<"t","o">>, <<"f","o","r">> }

\* variant: the length test written with >= 2 for > 2
KeepWordFromTwo(word) == word \notin COMMON_WORDS /\ Len(word) >= 2

\* the filter predicate of getWords
KeepWord(word) == word \notin COMMON_WORDS /\ Len(word) > 2

getWords(text) == {w \in Range(SplitSpaces(ToLowerCase(text))) : KeepWord(w)}

\* logged foods the caller's collection is built from (FoodEntry without the
\* row fields); "none" stands for an optional field that is absent
DalRice ==
    [name |-> <<"d","a","l"," ","r","i","c","e">>,
     calories |-> 400, protein |-> 30,
     image_data |-> "img-a", description |-> "none"]
DalRiceBowl ==
    [name |-> <<"D","a","l"," "," ","R","i","c","e"," ","b","o","w","l">>,
     calories |-> 410, protein |-> 31,
     image_data |-> "none", description |-> "lunch"]
Salad ==
    [name |-> <<"t","h","e"," ","s","a","l","a","d">>,
     calories |-> 150, protein |-> 5,
     image_data |-> "img-c", description |-> "side"]

Foods == {DalRice, DalRiceBowl, Salad}

\* near-duplicate foods: one name logged with drifting portions, and the same
\* name with one more word
ChickenRice ==
    [name |-> <<"c","h","i","c","k","e","n"," ","r","i","c","e">>,
     calories |-> 400, protein |-> 30,
     image_data |-> "img-1", description |-> "none"]
ChickenRiceBowl ==
    [name |-> <<"c","h","i","c","k","e","n"," ","r","i","c","e"," ","b","o","w","l">>,
     calories |-> 410, protein |-> 31,
     image_data |-> "img-2", description |-> "bowl"]
GreenSalad ==
    [name |-> <<"s","a","l","a","d">>,
     calories |-> 150, protein |-> 5,
     image_data |-> "none", description |-> "greens"]
ChickenRiceLarge ==
    [name |-> <<"c","h","i","c","k","e","n"," ","r","i","c","e">>,
     calories |-> 460, protein |-> 32,
     image_data |-> "img-4", description |-> "large"]
ChickenRiceHuge ==
    [name |-> <<"c","h","i","c","k","e","n"," ","r","i","c","e">>,
     calories |-> 530, protein |-> 34,
     image_data |-> "img-5", description |-> "huge"]

EdgeFoods == {ChickenRice, ChickenRiceBowl, GreenSalad, ChickenRiceLarge, ChickenRiceHuge}

\* foods at the corners of the primitives: names without any kept word,
\* records without calories, and one name logged with 100 g and 86 g protein
NoName ==
    [name |-> <<>>,
     calories |-> 400, protein |-> 30,
     image_data |-> "img-6", description |-> "none"]
OfThe ==
    [name |-> <<"o","f"," ","t","h","e">>,
     calories |-> 400, protein |-> 30,
     image_data |-> "none", description |-> "none"]
OxGo ==
    [name |-> <<"o","x"," ","g","o">>,
     calories |-> 400, protein |-> 30,
     image_data |-> "none", description |-> "none"]
BlackCoffee ==
    [name |-> <<"b","l","a","c","k"," ","c","o","f","f","e","e">>,
     calories |-> 0, protein |-> 0,
     image_data |-> "none", description |-> "none"]
BlackCoffeeMilk ==
    [name |-> <<"b","l","a","c","k"," ","c","o","f","f","e","e">>,
     calories |-> 0, protein |-> 1,
     image_data |-> "none", description |-> "dash of milk"]
Shake100 ==
    [name |-> <<"s","h","a","k","e">>,
     calories |-> 400, protein |-> 100,
     image_data |-> "none", description |-> "none"]
Shake86 ==
    [name |-> <<"s","h","a","k","e">>,
     calories |-> 400, protein |-> 86,
     image_data |-> "none", description |-> "less powder"]

CornerFoods == {NoName, OfThe, OxGo, BlackCoffee, BlackCoffeeMilk, Shake100, Shake86}

\* the names the checked collections use, and their words computed once
KnownNames == {f.name : f \in Foods \cup EdgeFoods \cup CornerFoods}
KnownWords == [t \in KnownNames |-> getWords(t)]
WordsOf(text) == IF text \in KnownNames THEN KnownWords[text] ELSE getWords(text)

\* variant: the shared words over the words of the first name
calculateSimilarityOverFirst(name1, name2) ==
    LET words1 == WordsOf(name1)
        words2 == WordsOf(name2)
        intersection == {x \in words1 : x \in words2}
    IN  IF Cardinality(words1) > 0
        THEN <<Cardinality(intersection), Cardinality(words1)>>
        ELSE <<0, 1>>

\* variant: two names without words count as identical
calculateSimilarityEmptyIsOne(name1, name2) ==
    LET words1 == WordsOf(name1)
        words2 == WordsOf(name2)
        intersection == {x \in words1 : x \in words2}
        union == words1 \cup words2
    IN  IF Cardinality(union) > 0
        THEN <<Cardinality(intersection), Cardinality(union)>>
        ELSE <<1, 1>>

\* calculateSimilarity: the quotient intersection.size / union.size as the
\* pair <<numerator, denominator>>, and 0 as <<0, 1>> when the union is empty
calculateSimilarity(name1, name2) ==
    LET words1 == WordsOf(name1)
        words2 == WordsOf(name2)
        intersection == {x \in words1 : x \in words2}
        union == words1 \cup words2
    IN  IF Cardinality(union) > 0
        THEN <<Cardinality(intersection), Cardinality(union)>>
        ELSE <<0, 1>>

\* variant: the threshold test written with > for >=
RatGreater(q1, q2) == q1[1] * q2[2] > q2[1] * q1[2]

\* q1 >= q2 for quotients <<n, d>> with d > 0
RatGeq(q1, q2) == q1[1] * q2[2] >= q2[1] * q1[2]

\* variant: 0 / 0 taken as no difference
RelDiffZeroOverZeroIsNone(x, den) ==
    IF den = 0 THEN x = 0 ELSE Abs(x) * 100 < 15 * den

\* variant: the tolerance test written with <= for <
RelDiffAtMost15(x, den) ==
    IF den = 0 THEN FALSE ELSE Abs(x) * 100 <= 15 * den

\* Math.abs(x) / den < 0.15 as JavaScript evaluates it: 0/0 is NaN and
\* x/0 is Infinity, and neither is below 0.15
RelDiffBelow15(x, den) ==
    IF den = 0 THEN FALSE ELSE Abs(x) * 100 < 15 * den

areNutritionallySimilar(entry1, entry2) ==
    LET caloriesDiffOk ==
            RelDiffBelow15(entry1.calories - entry2.calories,
                           Max(entry1.calories, entry2.calories))
        proteinDiffOk ==
            RelDiffBelow15(entry1.protein - entry2.protein,
                           Max(entry1.protein, 1))
    IN  caloriesDiffOk /\ proteinDiffOk

\* variant: halves round down
RoundDivHalfDown(sum, n) == (2 * sum + n - 1) \div (2 * n)

\* variant: Math.floor for Math.round
FloorDiv(sum, n) == sum \div n

\* Math.round(sum / n) for sum >= 0, n > 0: halves round up
RoundDiv(sum, n) == (2 * sum + n) \div (2 * n)

\* ------------------------------------------------------------------------
\* getFrequentItems
\* ------------------------------------------------------------------------
\* Object.values(allData).flat()
RECURSIVE Flatten(_)
Flatten(lists) ==
    IF lists = <<>> THEN <<>> ELSE Head(lists) \o Flatten(Tail(lists))

\* variant: the gate called with the representative first
JoinsGroupRepresentativeFirst(entry, representative, threshold) ==
    /\ RatGeq(calculateSimilarity(entry.name, representative.name), threshold)
    /\ areNutritionallySimilar(representative, entry)

\* the condition of the if inside the inner loop
JoinsGroup(entry, representative, threshold) ==
    /\ RatGeq(calculateSimilarity(entry.name, representative.name), threshold)
    /\ areNutritionallySimilar(entry, representative)

\* variant: the entry is compared with the latest member of each group
RECURSIVE FirstGroupByLatestFrom(_, _, _, _)
FirstGroupByLatestFrom(entry, gs, threshold, k) ==
    IF k > Len(gs) THEN 0
    ELSE IF JoinsGroup(entry, gs[k][Len(gs[k])], threshold) THEN k
    ELSE FirstGroupByLatestFrom(entry, gs, threshold, k + 1)

\* the inner loop: the index of the first group the entry is pushed to,
\* 0 when the loop ends with addedToGroup still false
RECURSIVE FirstGroupFrom(_, _, _, _)
FirstGroupFrom(entry, gs, threshold, k) ==
    IF k > Len(gs) THEN 0
    ELSE IF JoinsGroup(entry, gs[k][1], threshold) THEN k
    ELSE FirstGroupFrom(entry, gs, threshold, k + 1)

\* variant: addedToGroup is never set, a joined entry also seeds a group
AddEntryNoFlag(gs, entry, threshold) ==
    LET k == FirstGroupFrom(entry, gs, threshold, 1)
    IN  IF k > 0
        THEN Append([gs EXCEPT ![k] = Append(@, entry)], <<entry>>)
        ELSE Append(gs, <<entry>>)

\* one iteration of the outer loop
AddEntry(gs, entry, threshold) ==
    LET k == FirstGroupFrom(entry, gs, threshold, 1)
    IN  IF k > 0
        THEN [gs EXCEPT ![k] = Append(@, entry)]
        ELSE Append(gs, <<entry>>)

\* variant: the item carries the identity of the latest member
SummarizeLatest(gs, k) ==
    LET group == gs[k]
        representative == group[Len(group)]
    IN  [item |->
            [name |-> representative.name,
             calories |-> RoundDiv(SumSeq([i \in 1..Len(group) |-> group[i].calories]),
                                   Len(group)),
             protein |-> RoundDiv(SumSeq([i \in 1..Len(group) |-> group[i].protein]),
                                  Len(group)),
             image_data |-> representative.image_data,
             description |-> representative.description,
             count |-> Len(group)],
         src |-> k]

\* the callback of .map: the returned item, tagged with the group it is from
Summarize(gs, k) ==
    LET group == gs[k]
        representative == group[1]
    IN  [item |->
            [name |-> representative.name,
             calories |-> RoundDiv(SumSeq([i \in 1..Len(group) |-> group[i].calories]),
                                   Len(group)),
             protein |-> RoundDiv(SumSeq([i \in 1..Len(group) |-> group[i].protein]),
                                  Len(group)),
             image_data |-> representative.image_data,
             description |-> representative.description,
             count |-> Len(group)],
         src |-> k]

\* variant: the filter written with > for >=
KeepGroupStrict(group, minOcc) == Len(group) > minOcc

\* .filter(group => group.length >= minOccurrences)
KeepGroup(group, minOcc) == Len(group) >= minOcc

\* .filter(...).map(...)
RECURSIVE FilterMapFrom(_, _, _)
FilterMapFrom(gs, minOcc, k) ==
    IF k > Len(gs) THEN <<>>
    ELSE IF KeepGroup(gs[k], minOcc)
         THEN <<Summarize(gs, k)>> \o FilterMapFrom(gs, minOcc, k + 1)
         ELSE FilterMapFrom(gs, minOcc, k + 1)

\* variant: a comparator that also moves b before a on equal counts
GoesBeforeOrTied(b, a) == b.item.count - a.item.count >= 0

\* the comparator (a, b) => b.count - a.count is positive: b goes before a
GoesBefore(b, a) == b.item.count - a.item.count > 0

\* Array.prototype.sort is stable: x is put after every element that the
\* comparator does not order after it
RECURSIVE InsertSorted(_, _)
InsertSorted(sorted, x) ==
    IF sorted = <<>> THEN <<x>>
    ELSE IF GoesBefore(x, Head(sorted))
         THEN <<x>> \o sorted
         ELSE <<Head(sorted)>> \o InsertSorted(Tail(sorted), x)

RECURSIVE SortFrom(_, _, _)
SortFrom(items, k, sorted) ==
    IF k > Len(items) THEN sorted
    ELSE SortFrom(items, k + 1, InsertSorted(sorted, items[k]))

\* .sort((a, b) => b.count - a.count)
SortByCount(items) == SortFrom(items, 1, <<>>)

\* variant: the slice keeps one item too many
SliceOneMore(items, n) ==
    SubSeq(items, 1, IF n + 1 < Len(items) THEN n + 1 ELSE Len(items))

\* .slice(0, maxItems) for maxItems >= 0
Slice(items, n) == SubSeq(items, 1, IF n < Len(items) THEN n ELSE Len(items))

\* lines 76-97
FrequentGroups(gs, minOcc, maxIt) ==
    Slice(SortByCount(FilterMapFrom(gs, minOcc, 1)), maxIt)

\* ------------------------------------------------------------------------
\* Inputs of getFrequentItems
\* ------------------------------------------------------------------------
\* values the parameters are drawn from; 2, 8 and 0.6 are the defaults
MinOccurrencesValues == {1, 2, 3}
MaxItemsValues == {0, 1, 2, 8}
ThresholdValues == {<<3, 5>>, <<1, 1>>}

\* how many records each date holds: at most MaxDates dates, n records in all
DateShapes(n) ==
    {s \in UNION {[1..d -> 0..n] : d \in 0..MaxDates} : SumSeq(s) = n}

\* a FoodEntry row: the food with its id and the date it is stored under
Row(food, i, date) ==
    [id |-> i, entry_date |-> date, name |-> food.name,
     calories |-> food.calories, protein |-> food.protein,
     image_data |-> food.image_data, description |-> food.description]

\* Record<string, FoodEntry[]>: the lists of the dates in key order
BuildData(fs, shape) ==
    [d \in 1..Len(shape) |->
        LET off == SumSeq(SubSeq(shape, 1, d - 1))
        IN  [j \in 1..shape[d] |-> Row(fs[off + j], off + j, d)]]

InitCluster ==
    /\ \E n \in 0..MaxEntries :
         \E fs \in [1..n -> Foods] :
           \E shape \in DateShapes(n) :
             allData = BuildData(fs, shape)
    /\ minOccurrences = 2
    /\ maxItems = 8
    /\ similarityThreshold = <<3, 5>>
    /\ pc = "idle"
    /\ allEntries = <<>>
    /\ groups = <<>>
    /\ idx = 1
    /\ result = <<>>
    /\ origin = <<>>
    /\ prevResult = <<>>
    /\ runs = 0

\* the clustering variables while the colour coding is checked
IdleCluster ==
    /\ allData = <<>>
    /\ minOccurrences = 2
    /\ maxItems = 8
    /\ similarityThreshold = <<3, 5>>
    /\ pc = "idle"
    /\ allEntries = <<>>
    /\ groups = <<>>
    /\ idx = 1
    /\ result = <<>>
    /\ origin = <<>>
    /\ prevResult = <<>>
    /\ runs = 0

\* a collection of near-duplicate foods stored under one date
InitEdgeCluster ==
    /\ \E n \in 0..MaxEdgeEntries :
         \E fs \in [1..n -> EdgeFoods] :
           allData = BuildData(fs, <<n>>)
    /\ minOccurrences = 2
    /\ maxItems = 8
    /\ similarityThreshold = <<3, 5>>
    /\ pc = "idle"
    /\ allEntries = <<>>
    /\ groups = <<>>
    /\ idx = 1
    /\ result = <<>>
    /\ origin = <<>>
    /\ prevResult = <<>>
    /\ runs = 0

\* a collection of corner foods stored under one date
InitCornerCluster ==
    /\ \E n \in 0..MaxEdgeEntries :
         \E fs \in [1..n -> CornerFoods] :
           allData = BuildData(fs, <<n>>)
    /\ minOccurrences = 2
    /\ maxItems = 8
    /\ similarityThreshold = <<3, 5>>
    /\ pc = "idle"
    /\ allEntries = <<>>
    /\ groups = <<>>
    /\ idx = 1
    /\ result = <<>>
    /\ origin = <<>>
    /\ prevResult = <<>>
    /\ runs = 0

\* variant: the flattening empties the caller's per-date lists (splice)
EnterDraining ==
    /\ allEntries' = Flatten(allData)
    /\ groups' = <<>>
    /\ idx' = 1
    /\ result' = <<>>
    /\ origin' = <<>>
    /\ pc' = IF Len(Flatten(allData)) = 0 THEN "done" ELSE "scan"
    /\ allData' = [d \in 1..Len(allData) |-> <<>>]

\* variant: the early return on an empty collection is missing
EnterNoEarlyReturn ==
    /\ allEntries' = Flatten(allData)
    /\ groups' = <<>>
    /\ idx' = 1
    /\ result' = <<>>
    /\ origin' = <<>>
    /\ pc' = "scan"
    /\ UNCHANGED allData

\* lines 47-52: flatten, return [] at once when there is no record
Enter ==
    /\ allEntries' = Flatten(allData)
    /\ groups' = <<>>
    /\ idx' = 1
    /\ result' = <<>>
    /\ origin' = <<>>
    /\ pc' = IF Len(Flatten(allData)) = 0 THEN "done" ELSE "scan"
    /\ UNCHANGED allData

\* a call of getFrequentItems with the given arguments
Call ==
    /\ pc = "idle"
    /\ runs = 0
    /\ \E mo \in MinOccurrencesValues, mi \in MaxItemsValues, th \in ThresholdValues :
         /\ minOccurrences' = mo
         /\ maxItems' = mi
         /\ similarityThreshold' = th
    /\ runs' = 1
    /\ Enter
    /\ UNCHANGED <<prevResult, colorVars, otherVars>>

\* a second call on the same collection with the same arguments
CallAgain ==
    /\ pc = "done"
    /\ runs = 1
    /\ runs' = 2
    /\ prevResult' = result
    /\ Enter
    /\ UNCHANGED <<minOccurrences, maxItems, similarityThreshold, colorVars, otherVars>>

\* variant: the loop normalises the name of the caller's record in place
ScanEntryLowercasing ==
    /\ pc = "scan"
    /\ idx <= Len(allEntries)
    /\ groups' = AddEntry(groups, allEntries[idx], similarityThreshold)
    /\ idx' = idx + 1
    /\ allData' = [d \in 1..Len(allData) |->
                     [j \in 1..Len(allData[d]) |->
                        IF allData[d][j].id = allEntries[idx].id
                        THEN [allData[d][j] EXCEPT !.name = ToLowerCase(@)]
                        ELSE allData[d][j]]]
    /\ UNCHANGED <<minOccurrences, maxItems, similarityThreshold, pc,
                   allEntries, result, origin, prevResult, runs, colorVars, otherVars>>

\* lines 54-73: one iteration of the loop over allEntries
ScanEntry ==
    /\ pc = "scan"
    /\ idx <= Len(allEntries)
    /\ groups' = AddEntry(groups, allEntries[idx], similarityThreshold)
    /\ idx' = idx + 1
    /\ UNCHANGED <<allData, minOccurrences, maxItems, similarityThreshold, pc,
                   allEntries, result, origin, prevResult, runs, colorVars, otherVars>>

\* lines 75-99: filter, map, sort, slice, return
Finish ==
    /\ pc = "scan"
    /\ idx > Len(allEntries)
    /\ LET fg == FrequentGroups(groups, minOccurrences, maxItems)
       IN  /\ result' = [i \in 1..Len(fg) |-> fg[i].item]
           /\ origin' = [i \in 1..Len(fg) |-> fg[i].src]
    /\ pc' = "done"
    /\ UNCHANGED <<allData, minOccurrences, maxItems, similarityThreshold,
                   allEntries, groups, idx, prevResult, runs, colorVars, otherVars>>

NextCluster == Call \/ CallAgain \/ ScanEntry \/ Finish

\* thresholds a caller may pass: 0 and 1.5 are outside (0, 1], 2/3 is the
\* similarity of "chicken rice" and "chicken rice bowl"
EdgeThresholdValues == {<<0, 1>>, <<1, 2>>, <<2, 3>>, <<3, 2>>}
EdgeMinOccurrencesValues == {1, 2}

\* a call of getFrequentItems on near-duplicate foods
CallEdge ==
    /\ pc = "idle"
    /\ runs = 0
    /\ \E mo \in EdgeMinOccurrencesValues, th \in EdgeThresholdValues :
         /\ minOccurrences' = mo
         /\ similarityThreshold' = th
    /\ runs' = 1
    /\ Enter
    /\ UNCHANGED <<maxItems, prevResult, colorVars, otherVars>>

NextEdge == CallEdge \/ ScanEntry \/ Finish

\* the colour-coding variables while the clustering is checked
IdleColors ==
    /\ totals = [calories |-> 0, protein |-> 0]
    /\ targetCalories = 0
    /\ targetProtein = 0
    /\ maintenanceCalories = 0
    /\ calorieColor = "unset"
    /\ proteinColor = "unset"
    /\ caloriesBar = "unset"
    /\ proteinBar = "unset"

\* ------------------------------------------------------------------------
\* Totals.getCalorieColor / getProteinColor, WeeklyChart bars
\* ------------------------------------------------------------------------
\* thresholds in tenths of a percentage point
RelaxedGreen == 50      \* greenThreshold = 5.0
RelaxedYellow == 75     \* yellowThreshold = 7.5
StrictGreen == 25       \* greenThreshold = 2.5
StrictYellow == 50      \* yellowThreshold = 5.0
ProteinYellow == 50     \* 5.0

\* variant: the two directions exchanged
GoodDirectionSwapped(actual, target, maintenance) ==
    LET isDeficit == target < maintenance
        isSurplus == target > maintenance
        isAboveTarget == actual > target
        isBelowTarget == actual < target
    IN  (isDeficit /\ isAboveTarget) \/ (isSurplus /\ isBelowTarget)

\* (isDeficit && isBelowTarget) || (isSurplus && isAboveTarget)
GoodDirection(actual, target, maintenance) ==
    LET isDeficit == target < maintenance
        isSurplus == target > maintenance
        isAboveTarget == actual > target
        isBelowTarget == actual < target
    IN  (isDeficit /\ isBelowTarget) \/ (isSurplus /\ isAboveTarget)

greenThreshold(actual, target, maintenance) ==
    IF GoodDirection(actual, target, maintenance) THEN RelaxedGreen ELSE StrictGreen

\* variant: the yellow thresholds of the two directions exchanged
yellowThresholdExchanged(actual, target, maintenance) ==
    IF GoodDirection(actual, target, maintenance) THEN StrictYellow ELSE RelaxedYellow

yellowThreshold(actual, target, maintenance) ==
    IF GoodDirection(actual, target, maintenance) THEN RelaxedYellow ELSE StrictYellow

\* Totals: Math.abs((actual / target) * 100 - 100) <= tenths / 10, target > 0
DiffAtMost(actual, target, tenths) ==
    Abs(actual * 100 - 100 * target) * 10 <= tenths * target

\* Totals: (actual / target) * 100 > percent, target > 0
PercentOfTargetAbove(actual, target, percent) == actual * 100 > percent * target

\* Totals.getCalorieColor
getCalorieColor(actual, target, maintenance) ==
    IF actual = 0 THEN "#9CA3AF"
    ELSE IF target = 0 THEN "#9CA3AF"
    ELSE IF maintenance = 0      \* !maintenanceCalories: absent or 0
         THEN IF PercentOfTargetAbove(actual, target, 100) THEN "#EF4444"
              ELSE IF PercentOfTargetAbove(actual, target, 90) THEN "#F59E0B"
              ELSE "#10A37F"
    ELSE IF DiffAtMost(actual, target, greenThreshold(actual, target, maintenance))
         THEN "#10A37F"
    ELSE IF DiffAtMost(actual, target, yellowThreshold(actual, target, maintenance))
         THEN "#F59E0B"
    ELSE "#EF4444"

\* variant: >= for >
PercentBelowAtLeast(actual, target, tenths) ==
    IF target = 0 THEN target - actual > 0
    ELSE (target - actual) * 1000 >= tenths * target

\* ((target - actual) / target) * 100 > tenths / 10; a zero target divides
\* by zero: the quotient is +Infinity, -Infinity or NaN by the sign of the
\* numerator, and only +Infinity is above the threshold
PercentBelowAbove(actual, target, tenths) ==
    IF target = 0 THEN target - actual > 0
    ELSE (target - actual) * 1000 > tenths * target

\* Totals.getProteinColor
getProteinColor(actual, target) ==
    IF actual = 0 THEN "#9CA3AF"
    ELSE IF target = 0 THEN "#9CA3AF"
    ELSE IF ~PercentBelowAbove(actual, target, 0) THEN "#10A37F"
    ELSE IF ~PercentBelowAbove(actual, target, ProteinYellow) THEN "#F59E0B"
    ELSE "#EF4444"

\* WeeklyChart: Math.abs(diff / target) * 100 > tenths / 10; a zero target
\* divides by zero: Infinity for diff # 0 (above any threshold), NaN for 0
PercentDiffAbove(diff, target, tenths) ==
    IF target = 0 THEN diff # 0
    ELSE Abs(diff) * 1000 > tenths * target

\* WeeklyChart.caloriesData: frontColor of one day's bar
caloriesBarColor(actual, target, maintenance) ==
    IF actual = 0 THEN "#E5E7EB"
    ELSE IF PercentDiffAbove(actual - target, target,
                             yellowThreshold(actual, target, maintenance))
         THEN "#F87171"
    ELSE IF PercentDiffAbove(actual - target, target,
                             greenThreshold(actual, target, maintenance))
         THEN "#FBBF24"
    ELSE "#4ADE80"

\* WeeklyChart.proteinData: frontColor of one day's bar
proteinBarColor(actual, target) ==
    IF actual = 0 THEN "#E5E7EB"
    ELSE IF PercentBelowAbove(actual, target, ProteinYellow) THEN "#F87171"
    ELSE IF PercentBelowAbove(actual, target, 0) THEN "#FBBF24"
    ELSE "#4ADE80"

\* the status a colour stands for
Tier(color) ==
    CASE color \in {"#9CA3AF", "#E5E7EB"} -> "NoData"
      [] color \in {"#10A37F", "#4ADE80"} -> "OnTrack"
      [] color \in {"#F59E0B", "#FBBF24"} -> "Approaching"
      [] color \in {"#EF4444", "#F87171"} -> "OffTrack"
      [] OTHER -> "unset"

\* values the goals are drawn from (0: no target, no maintenance given)
TargetCaloriesValues == {0, 40}
MaintenanceValues == {0, 30, 40, 50}
TargetProteinValues == {0, 20}

InitColors ==
    /\ totals \in [calories : 0..MaxActual, protein : 0..MaxActual]
    /\ targetCalories \in TargetCaloriesValues
    /\ targetProtein \in TargetProteinValues
    /\ maintenanceCalories \in MaintenanceValues
    /\ calorieColor = "unset"
    /\ proteinColor = "unset"
    /\ caloriesBar = "unset"
    /\ proteinBar = "unset"

\* the Totals component renders the day's progress donuts
RenderTotals ==
    /\ calorieColor = "unset"
    /\ calorieColor' = getCalorieColor(totals.calories, targetCalories, maintenanceCalories)
    /\ proteinColor' = getProteinColor(totals.protein, targetProtein)
    /\ UNCHANGED <<totals, targetCalories, targetProtein, maintenanceCalories,
                   caloriesBar, proteinBar, clusterVars, otherVars>>

\* the WeeklyChart component renders the day's bars
RenderWeeklyChart ==
    /\ caloriesBar = "unset"
    /\ caloriesBar' = caloriesBarColor(totals.calories, targetCalories, maintenanceCalories)
    /\ proteinBar' = proteinBarColor(totals.protein, targetProtein)
    /\ UNCHANGED <<totals, targetCalories, targetProtein, maintenanceCalories,
                   calorieColor, proteinColor, clusterVars, otherVars>>

NextColors == RenderTotals \/ RenderWeeklyChart

\* ------------------------------------------------------------------------
\* Weekly aggregation: get_coach_analytics (SQL) and the pre-calculation of
\* the analyze-meal-coaching handler
\* ------------------------------------------------------------------------
Meal(c, p) == [calories |-> c, protein |-> p]

\* what a user may have logged on one day
NoMeals == <<>>
OnlyWater == <<Meal(0, 0)>>
LightDay == <<Meal(700, 30), Meal(800, 41)>>
MediumDay == <<Meal(700, 30), Meal(900, 45)>>
HeavyDay == <<Meal(800, 40), Meal(901, 46)>>
DayLogs == {NoMeals, OnlyWater, LightDay, MediumDay, HeavyDay}

MaintenanceCaloriesValues == {1600, 2000}

\* SUM(fe.calories), SUM(fe.protein) of one date
total_calories(meals) == SumSeq([i \in 1..Len(meals) |-> meals[i].calories])
total_protein(meals) == SumSeq([i \in 1..Len(meals) |-> meals[i].protein])

\* the CTE daily_totals: GROUP BY gives one row per date that has an entry
daily_totals(logs) == {d \in 1..Len(logs) : logs[d] # <<>>}

\* WHERE dt.entry_date < today AND dt.total_calories > 0
AveragedRows(logs, t) ==
    {d \in daily_totals(logs) : d < t /\ total_calories(logs[d]) > 0}

\* the sum of the calories and of the protein totals of a set of rows
SumCalories(logs, rows) ==
    SumSeq([d \in 1..Len(logs) |->
               IF d \in rows THEN total_calories(logs[d]) ELSE 0])
SumProtein(logs, rows) ==
    SumSeq([d \in 1..Len(logs) |->
               IF d \in rows THEN total_protein(logs[d]) ELSE 0])

\* COALESCE(ROUND(AVG(x)), 0)::INTEGER: AVG over no row is NULL
RoundedAvg(sum, n) == IF n = 0 THEN 0 ELSE RoundDiv(sum, n)

avg_calories(logs, t) ==
    RoundedAvg(SumCalories(logs, AveragedRows(logs, t)),
               Cardinality(AveragedRows(logs, t)))
avg_protein(logs, t) ==
    RoundedAvg(SumProtein(logs, AveragedRows(logs, t)),
               Cardinality(AveragedRows(logs, t)))
daily_deficit(logs, t, maintenance) == avg_calories(logs, t) - maintenance
weekly_deficit(logs, t, maintenance) ==
    daily_deficit(logs, t, maintenance) * Cardinality(AveragedRows(logs, t))
days_logged(logs) ==
    Cardinality({d \in daily_totals(logs) : total_calories(logs[d]) > 0})

NoAnalytics ==
    [ran |-> FALSE, avg_calories |-> 0, avg_protein |-> 0,
     daily_deficit |-> 0, weekly_deficit |-> 0, days_logged |-> 0]
NoSummary == [ran |-> FALSE, daysLogged |-> 0, avgCalories |-> 0, avgProtein |-> 0]

\* a week of logs; CURRENT_DATE is the day before the window (week_start is
\* the Tuesday of the current week) or one of its days but the last
InitWeekly ==
    /\ weekLogs \in [1..WeekDays -> DayLogs]
    /\ today \in 0..(WeekDays - 1)
    /\ weekMaintenance \in MaintenanceCaloriesValues
    /\ coachAnalytics = NoAnalytics
    /\ weekSummary = NoSummary

IdleWeekly ==
    /\ weekLogs = <<>>
    /\ today = 0
    /\ weekMaintenance = 2000
    /\ coachAnalytics = NoAnalytics
    /\ weekSummary = NoSummary

\* the row get_coach_analytics returns for the user
GetCoachAnalytics ==
    /\ ~coachAnalytics.ran
    /\ coachAnalytics' =
         [ran |-> TRUE,
          avg_calories |-> avg_calories(weekLogs, today),
          avg_protein |-> avg_protein(weekLogs, today),
          daily_deficit |-> daily_deficit(weekLogs, today, weekMaintenance),
          weekly_deficit |-> weekly_deficit(weekLogs, today, weekMaintenance),
          days_logged |-> days_logged(weekLogs)]
    /\ UNCHANGED <<weekLogs, today, weekMaintenance, weekSummary,
                   clusterVars, colorVars, gateVars, textVars, queueVars>>

\* mealsByDate: the dates that have an entry, in date order
dailyMeals(logs) == daily_totals(logs)

\* lines 72-110 of the handler, on the entries of the week
AnalyzeMealCoaching ==
    /\ ~weekSummary.ran
    /\ LET days == dailyMeals(weekLogs)
           daysLogged == Cardinality(days)
           totalCal == SumCalories(weekLogs, days)
           totalPro == SumProtein(weekLogs, days)
       IN  weekSummary' =
             [ran |-> TRUE,
              daysLogged |-> daysLogged,
              avgCalories |-> IF daysLogged > 0 THEN RoundDiv(totalCal, daysLogged) ELSE 0,
              avgProtein |-> IF daysLogged > 0 THEN RoundDiv(totalPro, daysLogged) ELSE 0]
    /\ UNCHANGED <<weekLogs, today, weekMaintenance, coachAnalytics,
                   clusterVars, colorVars, gateVars, textVars, queueVars>>

NextWeekly == GetCoachAnalytics \/ AnalyzeMealCoaching

\* ------------------------------------------------------------------------
\* A call of areNutritionallySimilar
\* ------------------------------------------------------------------------
Nutrients == [calories : 0..MaxNutrient, protein : 0..MaxNutrient]

InitGate ==
    /\ firstEntry \in Nutrients
    /\ secondEntry \in Nutrients
    /\ gateResult = "unset"

IdleGate ==
    /\ firstEntry = Meal(0, 0)
    /\ secondEntry = Meal(0, 0)
    /\ gateResult = "unset"

CompareNutrition ==
    /\ gateResult = "unset"
    /\ gateResult' = IF areNutritionallySimilar(firstEntry, secondEntry)
                     THEN "similar" ELSE "different"
    /\ UNCHANGED <<firstEntry, secondEntry, clusterVars, colorVars, weeklyVars, textVars, queueVars>>

NextGate == CompareNutrition

\* ------------------------------------------------------------------------
\* Calls of getWords and calculateSimilarity on written names
\* ------------------------------------------------------------------------
\* String.prototype.toUpperCase, used to write a name in capitals
ToUpperChar(c) ==
    IF \E i \in 1..Len(Lowers) : Lowers[i] = c
    THEN Uppers[CHOOSE i \in 1..Len(Lowers) : Lowers[i] = c]
    ELSE c
ToUpperCase(text) == [i \in 1..Len(text) |-> ToUpperChar(text[i])]

RECURSIVE JoinWords(_, _)
JoinWords(ws, sep) ==
    IF ws = <<>> THEN <<>>
    ELSE IF Len(ws) = 1 THEN ws[1]
    ELSE ws[1] \o sep \o JoinWords(Tail(ws), sep)

\* the twelve words the specification lists as stop words
StatedStopWords ==
    { <<"a">>, <<"a","n">>, <<"t","h","e">>, <<"o","f">>, <<"w","i","t","h">>,
      <<"a","n","d">>, <<"o","r">>, <<"i","n">>, <<"o","n">>, <<"a","t">>,
      <<"t","o">>, <<"f","o","r">> }

\* the words names are written from: the stop words, two content words, a
\* two-letter word and a function word that is no stop word
Vocabulary ==
    StatedStopWords \cup
    { <<"e","g","g">>, <<"r","i","c","e">>, <<"o","x">>, <<"f","r","o","m">> }

Forms == {"plain", "capitals", "wide", "padded"}

\* the name a user types for the words ws
WriteName(ws, form) ==
    CASE form = "plain" -> JoinWords(ws, <<" ">>)
      [] form = "capitals" -> ToUpperCase(JoinWords(ws, <<" ">>))
      [] form = "wide" -> JoinWords(ws, <<" ", "\t", " ">>)
      [] form = "padded" -> <<" ">> \o JoinWords(ws, <<" ">>) \o <<"\n">>

NoWords == [done |-> FALSE, tokens |-> {}]
NoSimilarity == [done |-> FALSE, forward |-> <<0, 1>>, backward |-> <<0, 1>>]

InitWords ==
    /\ \E n \in 0..MaxWords :
         \E ws \in [1..n -> Vocabulary], form \in Forms :
           /\ nameParts = [ws |-> ws, form |-> form]
           /\ firstName = WriteName(ws, form)
    /\ secondName = <<>>
    /\ words = NoWords
    /\ similarity = NoSimilarity

\* the words two compared names are written from
PairVocabulary == { <<"e","g","g">>, <<"r","i","c","e">>, <<"t","h","e">>, <<"o","x">> }
PairNames == UNION {{JoinWords(ws, <<" ">>) : ws \in [1..n -> PairVocabulary]} : n \in 0..MaxWords}

InitSimilarity ==
    /\ nameParts = [ws |-> <<>>, form |-> "plain"]
    /\ firstName \in PairNames
    /\ secondName \in PairNames
    /\ words = NoWords
    /\ similarity = NoSimilarity

IdleText ==
    /\ nameParts = [ws |-> <<>>, form |-> "plain"]
    /\ firstName = <<>>
    /\ secondName = <<>>
    /\ words = NoWords
    /\ similarity = NoSimilarity

\* getWords(firstName)
Tokenize ==
    /\ ~words.done
    /\ words' = [done |-> TRUE, tokens |-> getWords(firstName)]
    /\ UNCHANGED <<nameParts, firstName, secondName, similarity,
                   clusterVars, colorVars, weeklyVars, gateVars, queueVars>>

\* calculateSimilarity(name1, name2) and calculateSimilarity(name2, name1)
Compare ==
    /\ ~similarity.done
    /\ similarity' = [done |-> TRUE,
                      forward |-> calculateSimilarity(firstName, secondName),
                      backward |-> calculateSimilarity(secondName, firstName)]
    /\ UNCHANGED <<nameParts, firstName, secondName, words,
                   clusterVars, colorVars, weeklyVars, gateVars, queueVars>>

NextWords == Tokenize
NextSimilarity == Compare

\* ------------------------------------------------------------------------
\* Offline queue: queueOperation, processQueue, the 'online' listener
\* ------------------------------------------------------------------------
\* the cache entry when the key is not stored
NoEntry == [present |-> FALSE, ops |-> <<>>]

\* cache.get(CACHE_KEYS.offlineQueue) || []: a parsed copy of what is stored
CachedQueue(entry) == IF entry.present THEN entry.ops ELSE <<>>

\* variant: the key is kept with an empty list when nothing failed
WriteBackKeepingKey(failedOps) == [present |-> TRUE, ops |-> failedOps]

\* lines 166-171: cache.set with the failed operations, or cache.delete
WriteBack(failedOps) ==
    IF Len(failedOps) > 0 THEN [present |-> TRUE, ops |-> failedOps] ELSE NoEntry

\* a run of processQueue that has not been called; outcomes and alone record
\* how each database call ended and whether nothing else touched the queue
\* or the database since the run read the queue
NoRun ==
    [pc |-> "idle", queue |-> <<>>, i |-> 0, failedOps |-> <<>>,
     outcomes |-> <<>>, alone |-> TRUE]

Runs == 1..MaxRuns

\* the runs awaiting a database call see that something else has acted
Disturb(ps, actor) ==
    [q \in Runs |->
        IF q # actor /\ ps[q].pc = "await"
        THEN [ps[q] EXCEPT !.alone = FALSE]
        ELSE ps[q]]

\* the next run of processQueue to be called
NextRun(p) == procs[p].pc = "idle" /\ \A q \in 1..(p - 1) : procs[q].pc # "idle"

\* lines 139-156: processQueue up to its first await
StartRun(p, isOnline) ==
    IF ~isOnline
    THEN /\ procs' = [procs EXCEPT ![p].pc = "done"]
         /\ UNCHANGED dbCalls
    ELSE IF CachedQueue(offlineQueue) = <<>>
    THEN /\ procs' = [procs EXCEPT ![p].pc = "done"]
         /\ UNCHANGED dbCalls
    ELSE /\ procs' = Disturb([procs EXCEPT ![p] =
                                 [pc |-> "await", queue |-> CachedQueue(offlineQueue),
                                  i |-> 1, failedOps |-> <<>>, outcomes |-> <<>>,
                                  alone |-> TRUE]], p)
         /\ dbCalls' = dbCalls + 1

\* lines 150-171 after a database call has ended: the next call, or the
\* rewrite of the stored queue
Continue(p, failedOps, ok) ==
    IF procs[p].i < Len(procs[p].queue)
    THEN /\ procs' = Disturb([procs EXCEPT ![p].i = @ + 1,
                                           ![p].failedOps = failedOps,
                                           ![p].outcomes = Append(@, ok)], p)
         /\ dbCalls' = dbCalls + 1
         /\ UNCHANGED offlineQueue
    ELSE /\ procs' = Disturb([procs EXCEPT ![p].pc = "done",
                                           ![p].failedOps = failedOps,
                                           ![p].outcomes = Append(@, ok)], p)
         /\ offlineQueue' = WriteBack(failedOps)
         /\ UNCHANGED dbCalls

InitQueue ==
    /\ online \in BOOLEAN
    /\ offlineQueue = NoEntry
    /\ nextOp = 1
    /\ procs = [p \in Runs |-> NoRun]
    /\ dbApplied = [op \in 1..MaxOps |-> 0]
    /\ dbCalls = 0

IdleQueue ==
    /\ online = TRUE
    /\ offlineQueue = NoEntry
    /\ nextOp = 1
    /\ procs = <<>>
    /\ dbApplied = <<>>
    /\ dbCalls = 0

\* queueOperation: no await, the whole body is one step
QueueOperation ==
    /\ nextOp <= MaxOps
    /\ offlineQueue' = [present |-> TRUE,
                        ops |-> Append(CachedQueue(offlineQueue), nextOp)]
    /\ nextOp' = nextOp + 1
    /\ procs' = Disturb(procs, 0)
    /\ UNCHANGED <<online, dbApplied, dbCalls,
                   clusterVars, colorVars, weeklyVars, gateVars, textVars>>

\* a call of processQueue
ProcessQueue ==
    \E p \in Runs :
       /\ NextRun(p)
       /\ StartRun(p, online)
       /\ UNCHANGED <<online, offlineQueue, nextOp, dbApplied,
                      clusterVars, colorVars, weeklyVars, gateVars, textVars>>

\* the connection comes back: the 'online' listener calls processQueue
GoOnline ==
    /\ ~online
    /\ online' = TRUE
    /\ \E p \in Runs :
          /\ NextRun(p)
          /\ StartRun(p, TRUE)
    /\ UNCHANGED <<offlineQueue, nextOp, dbApplied,
                   clusterVars, colorVars, weeklyVars, gateVars, textVars>>

\* the connection is lost
GoOffline ==
    /\ online
    /\ online' = FALSE
    /\ UNCHANGED <<offlineQueue, nextOp, procs, dbApplied, dbCalls,
                   clusterVars, colorVars, weeklyVars, gateVars, textVars>>

\* the awaited db.food.add / db.food.delete resolves
DbSucceeds ==
    \E p \in Runs :
       /\ procs[p].pc = "await"
       /\ dbApplied' = [dbApplied EXCEPT ![procs[p].queue[procs[p].i]] = @ + 1]
       /\ Continue(p, procs[p].failedOps, TRUE)
       /\ UNCHANGED <<online, nextOp,
                      clusterVars, colorVars, weeklyVars, gateVars, textVars>>

\* the awaited call rejects: the catch block pushes the operation
DbFails ==
    \E p \in Runs :
       /\ procs[p].pc = "await"
       /\ Continue(p, Append(procs[p].failedOps, procs[p].queue[procs[p].i]), FALSE)
       /\ UNCHANGED <<online, nextOp, dbApplied,
                      clusterVars, colorVars, weeklyVars, gateVars, textVars>>

NextQueue ==
    QueueOperation \/ ProcessQueue \/ GoOnline \/ GoOffline \/ DbSucceeds \/ DbFails

\* ------------------------------------------------------------------------
\* Specifications
\* ------------------------------------------------------------------------
IdleOthers == IdleWeekly /\ IdleGate /\ IdleText /\ IdleQueue

Init == InitCluster /\ IdleColors /\ IdleOthers

Next == NextCluster

Spec == Init /\ [][Next]_vars

ColorsInit == InitColors /\ IdleCluster /\ IdleOthers

SpecColors == ColorsInit /\ [][NextColors]_vars

EdgeInit == InitEdgeCluster /\ IdleColors /\ IdleOthers

SpecEdge == EdgeInit /\ [][NextEdge]_vars

CornerInit == InitCornerCluster /\ IdleColors /\ IdleOthers

SpecCorner == CornerInit /\ [][NextEdge]_vars

WeeklyInit == InitWeekly /\ IdleCluster /\ IdleColors /\ IdleGate /\ IdleText /\ IdleQueue

SpecWeekly == WeeklyInit /\ [][NextWeekly]_vars

GateInit == InitGate /\ IdleCluster /\ IdleColors /\ IdleWeekly /\ IdleText /\ IdleQueue

SpecGate == GateInit /\ [][NextGate]_vars

WordsInit == InitWords /\ IdleCluster /\ IdleColors /\ IdleWeekly /\ IdleGate /\ IdleQueue

SpecWords == WordsInit /\ [][NextWords]_vars

QueueInit == InitQueue /\ IdleCluster /\ IdleColors /\ IdleWeekly /\ IdleGate /\ IdleText

SpecQueue == QueueInit /\ [][NextQueue]_vars

SimilarityInit == InitSimilarity /\ IdleCluster /\ IdleColors /\ IdleWeekly /\ IdleGate /\ IdleQueue

SpecSimilarity == SimilarityInit /\ [][NextSimilarity]_vars

\* ========================================================================
\* Properties of getFrequentItems (specification Spec)
\* ========================================================================
\* the groups that pass the filter, by index
Surviving == {k \in 1..Len(groups) : Len(groups[k]) >= minOccurrences}

\* C1: the returned clusters all have count >= minOccurrences; a group that
\* ended the scan with minOccurrences - 1 members is not returned; a group
\* with exactly minOccurrences members is returned unless the truncation to
\* maxItems cut the list
C1_MinOccurrenceFilter ==
    pc = "done" =>
        /\ \A i \in 1..Len(result) : result[i].count >= minOccurrences
        /\ \A k \in 1..Len(groups) :
             Len(groups[k]) = minOccurrences - 1 => k \notin Range(origin)
        /\ \A k \in 1..Len(groups) :
             Len(groups[k]) = minOccurrences =>
                \/ k \in Range(origin)
                \/ (Cardinality(Surviving) > maxItems /\ Len(result) = maxItems)

\* a call that left one group one member short and returned another group
\* that has exactly minOccurrences members
C1_Witness ==
    /\ pc = "done"
    /\ minOccurrences >= 2
    /\ \E k \in 1..Len(groups) : Len(groups[k]) = minOccurrences - 1
    /\ \E k \in 1..Len(groups) :
         Len(groups[k]) = minOccurrences /\ k \in Range(origin)

\* the surviving clusters in rank order, before the truncation
Ranked == SortByCount(FilterMapFrom(groups, minOccurrences, 1))

\* C2: the returned list has at most maxItems elements and is the first
\* maxItems elements of the ranked list of the surviving clusters
C2_TruncatedToMaxItems ==
    (pc = "done" /\ allEntries # <<>>) =>
        /\ Len(result) <= maxItems
        /\ Len(result) = (IF maxItems < Len(Ranked) THEN maxItems ELSE Len(Ranked))
        /\ \A i \in 1..Len(result) :
             result[i] = Ranked[i].item /\ origin[i] = Ranked[i].src

\* a call whose ranked list was longer than maxItems and was cut
C2_Witness ==
    /\ pc = "done"
    /\ allEntries # <<>>
    /\ maxItems >= 1
    /\ Len(Ranked) > maxItems
    /\ Len(result) = maxItems

\* C3: the returned list is in non-increasing order of count, and returned
\* clusters of equal count are in the order their groups were created
C3_SortedAndStable ==
    pc = "done" =>
        \A i, j \in 1..Len(result) :
            i < j =>
               /\ result[i].count >= result[j].count
               /\ (result[i].count = result[j].count => origin[i] < origin[j])

\* a returned list in which the sort moved a later group ahead of an earlier
\* one and which also holds two clusters of equal count
C3_Witness ==
    /\ pc = "done"
    /\ \E i, j \in 1..Len(result) :
         i < j /\ result[i].count > result[j].count /\ origin[i] > origin[j]
    /\ \E i, j \in 1..Len(result) :
         i < j /\ result[i].count = result[j].count

C9_EmptyInputEmptyOutput ==
    /\ pc \in {"idle", "scan", "done"}
    /\ \A k \in 1..Len(groups) : Len(groups[k]) >= 1
    /\ (runs > 0 /\ Flatten(allData) = <<>>) => (pc = "done" /\ result = <<>>)

\* a call on a collection that has dates but no record
C9_Witness ==
    /\ runs > 0
    /\ Len(allData) > 0
    /\ Flatten(allData) = <<>>
    /\ pc = "done"
    /\ result = <<>>

\* C10: no step of getFrequentItems changes the caller's collection
C10_InputUnchanged == [][allData' = allData]_vars

\* two completed calls over a collection that still holds its records
C10_Witness ==
    /\ pc = "done"
    /\ runs = 2
    /\ Len(result) >= 1
    /\ Len(Flatten(allData)) = MaxEntries

\* ========================================================================
\* Properties of the colour coding (specification SpecColors)
\* ========================================================================
\* the calorie rule as stated: tier from |actual/target*100 - 100| against
\* 5.0 / 7.5 in the good direction and 2.5 / 5.0 otherwise (target > 0)
StatedCalorieTier(actual, target, maintenance) ==
    LET good == \/ (target < maintenance /\ actual < target)
                \/ (target > maintenance /\ actual > target)
        green == IF good THEN 50 ELSE 25
        yellow == IF good THEN 75 ELSE 50
        diff10 == Abs(actual * 1000 - 1000 * target)    \* 10 * diff * target
    IN  IF diff10 <= green * target THEN "OnTrack"
        ELSE IF diff10 <= yellow * target THEN "Approaching"
        ELSE "OffTrack"

\* the fallback of Totals.getCalorieColor when no maintenance is given
SimpleCalorieTier(actual, target) ==
    IF actual > target THEN "OffTrack"
    ELSE IF actual * 10 > 9 * target THEN "Approaching"
    ELSE "OnTrack"

CalorieInputsPositive == totals.calories > 0 /\ targetCalories > 0

\* C4 as claimed: for actual > 0, target > 0 and every maintenance >= 0 both
\* the daily indicator and the weekly bar show the tier of the stated rule
C4_AsClaimed ==
    CalorieInputsPositive =>
        /\ calorieColor # "unset" =>
             Tier(calorieColor) =
                StatedCalorieTier(totals.calories, targetCalories, maintenanceCalories)
        /\ caloriesBar # "unset" =>
             Tier(caloriesBar) =
                StatedCalorieTier(totals.calories, targetCalories, maintenanceCalories)

\* C4 (amended): the weekly bar shows the tier of the stated rule for every
\* maintenance >= 0, the daily indicator shows it for every maintenance > 0,
\* and with maintenance 0 the daily indicator shows OffTrack above target,
\* Approaching above 90% of target and OnTrack otherwise
C4_CalorieTiers ==
    CalorieInputsPositive =>
        /\ (calorieColor # "unset" /\ maintenanceCalories > 0) =>
             Tier(calorieColor) =
                StatedCalorieTier(totals.calories, targetCalories, maintenanceCalories)
        /\ (calorieColor # "unset" /\ maintenanceCalories = 0) =>
             Tier(calorieColor) = SimpleCalorieTier(totals.calories, targetCalories)
        /\ caloriesBar # "unset" =>
             Tier(caloriesBar) =
                StatedCalorieTier(totals.calories, targetCalories, maintenanceCalories)

\* both places rendered a day that is exactly 5% under a deficit target: the
\* relaxed band makes it OnTrack where the strict band would not
C4_Witness ==
    /\ calorieColor # "unset"
    /\ caloriesBar # "unset"
    /\ targetCalories > 0
    /\ targetCalories < maintenanceCalories
    /\ totals.calories * 100 = 95 * targetCalories
    /\ Tier(calorieColor) = "OnTrack"
    /\ Tier(caloriesBar) = "OnTrack"

\* C5: whenever actual calories or target calories are 0, both the daily
\* indicator and the weekly bar show NoData
C5_CalorieNoData ==
    (totals.calories = 0 \/ targetCalories = 0) =>
        /\ calorieColor # "unset" => Tier(calorieColor) = "NoData"
        /\ caloriesBar # "unset" => Tier(caloriesBar) = "NoData"

\* the protein rule as stated (target > 0)
StatedProteinTier(actual, target) ==
    IF actual >= target THEN "OnTrack"
    ELSE IF (target - actual) * 100 <= 5 * target THEN "Approaching"
    ELSE "OffTrack"

\* C6: for actual > 0 and target > 0, both places show OnTrack iff actual
\* meets or exceeds target, Approaching iff it is at most 5% below, and
\* OffTrack iff it is more than 5% below
C6_ProteinTiers ==
    (totals.protein > 0 /\ targetProtein > 0) =>
        /\ proteinColor # "unset" =>
             Tier(proteinColor) = StatedProteinTier(totals.protein, targetProtein)
        /\ proteinBar # "unset" =>
             Tier(proteinBar) = StatedProteinTier(totals.protein, targetProtein)

\* both places rendered a day exactly 5% below the protein target
C6_Witness ==
    /\ proteinColor # "unset"
    /\ proteinBar # "unset"
    /\ targetProtein > 0
    /\ (targetProtein - totals.protein) * 100 = 5 * targetProtein
    /\ Tier(proteinColor) = "Approaching"
    /\ Tier(proteinBar) = "Approaching"

\* C7: whenever actual protein or target protein is 0, both the daily
\* indicator and the weekly bar show NoData
C7_ProteinNoData ==
    (totals.protein = 0 \/ targetProtein = 0) =>
        /\ proteinColor # "unset" => Tier(proteinColor) = "NoData"
        /\ proteinBar # "unset" => Tier(proteinBar) = "NoData"


\* ------------------------------------------------------------------------
\* Claims about the grouping loop (SpecEdge)
\* ------------------------------------------------------------------------
\* a step of the loop: the record at idx has been placed
ScanStep == pc = "scan" /\ idx <= Len(allEntries) /\ idx' = idx + 1

\* the name similarity of e and r is exactly the threshold
SimilarityIsThreshold(e, r, th) ==
    LET sim == calculateSimilarity(e.name, r.name)
    IN  sim[1] * th[2] = th[1] * sim[2]

\* e meets the name threshold and the nutritional gate against r
Qualifies(e, r, th) ==
    LET sim == calculateSimilarity(e.name, r.name)
    IN  sim[1] * th[2] >= th[1] * sim[2] /\ areNutritionallySimilar(e, r)

\* C11: a record whose name similarity to a cluster's representative is
\* exactly the threshold and that passes the nutritional gate joins that
\* cluster, provided no earlier cluster accepted it
C11_JoinsAtThreshold ==
    [][ScanStep =>
         \A k \in 1..Len(groups) :
            ( /\ SimilarityIsThreshold(allEntries[idx], groups[k][1], similarityThreshold)
              /\ areNutritionallySimilar(allEntries[idx], groups[k][1])
              /\ \A j \in 1..(k - 1) :
                   ~Qualifies(allEntries[idx], groups[j][1], similarityThreshold) )
            => /\ Len(groups') = Len(groups)
               /\ groups'[k] = Append(groups[k], allEntries[idx])]_vars

\* a cluster holds a member whose similarity to the representative is
\* exactly the threshold
C11_Witness ==
    \E k \in 1..Len(groups) :
       \E m \in 2..Len(groups[k]) :
          /\ SimilarityIsThreshold(groups[k][m], groups[k][1], similarityThreshold)
          /\ groups[k][m].name # groups[k][1].name

\* the example of the specification: three records under one date, with
\* minOccurrences 2 and threshold 0.5
ExampleCall ==
    /\ allData = BuildData(<<ChickenRice, ChickenRiceBowl, GreenSalad>>, <<3>>)
    /\ minOccurrences = 2
    /\ similarityThreshold = <<1, 2>>
    /\ runs = 1

\* C12: for "chicken rice" 400/30, "chicken rice bowl" 410/31 and "salad"
\* 150/5 with minOccurrences 2 and threshold 0.5 the result is exactly one
\* cluster: "chicken rice", count 2, calories 405, protein 31; no salad
C12_ChickenRiceExample ==
    (ExampleCall /\ pc = "done") =>
        /\ Len(result) = 1
        /\ result[1].name = <<"c","h","i","c","k","e","n"," ","r","i","c","e">>
        /\ result[1].count = 2
        /\ result[1].calories = 405
        /\ result[1].protein = 31
        /\ \A i \in 1..Len(result) : result[i].name # <<"s","a","l","a","d">>

\* the example call has returned
C12_Witness == ExampleCall /\ pc = "done" /\ Len(groups) = 2 /\ Len(result) > 0

\* the threshold is outside (0, 1]
InvalidThreshold(th) == th[1] <= 0 \/ th[1] > th[2]

\* C15: a call whose threshold is outside (0, 1] is rejected at the boundary
\* and produces no clustering result: it never reaches the loop or a return
\* value
C15_InvalidCallRejected ==
    (runs >= 1 /\ InvalidThreshold(similarityThreshold)) => pc \notin {"scan", "done"}

\* C16: the name, image reference and note of every returned cluster are
\* those of the record that seeded it, the member earliest in input order
C16_RepresentativeIdentity ==
    pc = "done" =>
        \A i \in 1..Len(result) :
            LET group == groups[origin[i]]
                seed == allEntries[group[1].id]
            IN  /\ \A m \in 2..Len(group) : seed.id < group[m].id
                /\ result[i].name = seed.name
                /\ result[i].image_data = seed.image_data
                /\ result[i].description = seed.description

\* a returned cluster has a later member that differs from the seed in name,
\* image and note
C16_Witness ==
    /\ pc = "done"
    /\ \E i \in 1..Len(result) :
          LET group == groups[origin[i]]
          IN  \E m \in 2..Len(group) :
                 /\ group[m].name # group[1].name
                 /\ group[m].image_data # group[1].image_data
                 /\ group[m].description # group[1].description

\* the groups whose first-ever member the record qualifies against
QualifyingGroups(e, gs, th) == {k \in 1..Len(gs) : Qualifies(e, gs[k][1], th)}

\* C17: the loop takes the records in input order; a record joins the first
\* group, in creation order, whose first-ever member it qualifies against,
\* and seeds a new group only when there is none; no representative changes
C17_GreedySinglePass ==
    [][ScanStep =>
         LET e == allEntries[idx]
             Q == QualifyingGroups(e, groups, similarityThreshold)
         IN  /\ e.id = idx
             /\ \A k \in 1..Len(groups) :
                   /\ groups[k][1].id < idx
                   /\ \A j \in 1..(k - 1) : groups[j][1].id < groups[k][1].id
                   /\ groups'[k][1] = groups[k][1]
             /\ Q # {} =>
                   groups' = [groups EXCEPT
                                 ![CHOOSE k \in Q : \A j \in Q : k <= j] = Append(@, e)]
             /\ Q = {} => groups' = Append(groups, <<e>>)]_vars

\* a record that qualified against the first-ever members of two groups is
\* in the earlier group
C17_Witness ==
    \E k \in 1..Len(groups) : \E k2 \in (k + 1)..Len(groups) :
       \E m \in 2..Len(groups[k]) :
          /\ groups[k2][1].id < groups[k][m].id
          /\ Qualifies(groups[k][m], groups[k2][1], similarityThreshold)

\* ------------------------------------------------------------------------
\* Claims about the primitives (SpecGate, SpecWords, SpecSimilarity)
\* ------------------------------------------------------------------------
\* the larger of the two calorie values, and max(protein1, 1)
CaloriesDenominator == Max(firstEntry.calories, secondEntry.calories)
ProteinDenominator == Max(firstEntry.protein, 1)

\* a quotient diff / den compared with 0.15 = 3/20, for den > 0
CaloriesBelowTolerance ==
    /\ CaloriesDenominator > 0
    /\ 20 * Abs(firstEntry.calories - secondEntry.calories) < 3 * CaloriesDenominator
ProteinBelowTolerance ==
    20 * Abs(firstEntry.protein - secondEntry.protein) < 3 * ProteinDenominator
CaloriesAtTolerance ==
    /\ CaloriesDenominator > 0
    /\ 20 * Abs(firstEntry.calories - secondEntry.calories) = 3 * CaloriesDenominator
ProteinAtTolerance ==
    20 * Abs(firstEntry.protein - secondEntry.protein) = 3 * ProteinDenominator

\* C18: two records are nutritionally similar iff the calorie difference over
\* the larger calorie value is below 0.15 and the protein difference over
\* max(protein1, 1) is below 0.15; a difference of exactly 0.15 blocks
C18_NutritionalGate ==
    gateResult # "unset" =>
        /\ gateResult = "similar" <=> (CaloriesBelowTolerance /\ ProteinBelowTolerance)
        /\ (CaloriesAtTolerance \/ ProteinAtTolerance) => gateResult = "different"

\* a pair blocked only by a calorie difference of exactly 0.15
C18_Witness ==
    /\ gateResult = "different"
    /\ CaloriesAtTolerance
    /\ ProteinBelowTolerance

\* the words the name was written from that are no stop word and have more
\* than two letters
StatedTokens ==
    {w \in Range(nameParts.ws) : w \notin StatedStopWords /\ Len(w) > 2}

\* C19: tokenizing a name gives the set of its lowercased whitespace-separated
\* words without the twelve stop words and without the words of length <= 2,
\* whatever the case, the order and the repetition of the words
C19_Tokens ==
    /\ Cardinality(StatedStopWords) = 12
    /\ words.done => words.tokens = StatedTokens

\* a name in capitals with a stop word, a two-letter word and a content word
C19_Witness ==
    /\ words.done
    /\ nameParts.form = "capitals"
    /\ <<"t","h","e">> \in Range(nameParts.ws)
    /\ <<"o","x">> \in Range(nameParts.ws)
    /\ words.tokens = {<<"r","i","c","e">>}

\* the token sets of the two compared names
TokensA == getWords(firstName)
TokensB == getWords(secondName)

\* C20: the similarity is |A n B| / |A u B| of the token sets, symmetric, in
\* [0, 1], equal to 1 iff the token sets are equal and non-empty, and 0 when
\* both are empty
C20_Jaccard ==
    similarity.done =>
        LET f == similarity.forward
            b == similarity.backward
            shared == Cardinality(TokensA \cap TokensB)
            all == Cardinality(TokensA \cup TokensB)
        IN  /\ f[2] > 0 /\ b[2] > 0
            /\ all > 0 => f[1] * all = shared * f[2]
            /\ f[1] * b[2] = b[1] * f[2]
            /\ 0 <= f[1] /\ f[1] <= f[2]
            /\ f[1] = f[2] <=> (TokensA = TokensB /\ TokensA # {})
            /\ (TokensA = {} /\ TokensB = {}) => f[1] = 0

\* two different names with the same non-empty token set have similarity 1
C20_Witness ==
    /\ similarity.done
    /\ firstName # secondName
    /\ TokensA = TokensB
    /\ TokensA # {}
    /\ similarity.forward[1] = similarity.forward[2]

\* ------------------------------------------------------------------------
\* Claims about the weekly aggregation (SpecWeekly)
\* ------------------------------------------------------------------------
\* the dates of the range that have a record with nonzero calories
DatesWithFood ==
    {d \in 1..Len(weekLogs) : \E i \in 1..Len(weekLogs[d]) : weekLogs[d][i].calories # 0}

\* the per-date totals of the dates with food, summed
FoodCalories ==
    SumSeq([d \in 1..Len(weekLogs) |->
               IF d \in DatesWithFood
               THEN SumSeq([i \in 1..Len(weekLogs[d]) |-> weekLogs[d][i].calories])
               ELSE 0])
FoodProtein ==
    SumSeq([d \in 1..Len(weekLogs) |->
               IF d \in DatesWithFood
               THEN SumSeq([i \in 1..Len(weekLogs[d]) |-> weekLogs[d][i].protein])
               ELSE 0])

\* avg is the mean sum / n to the nearest integer (a half goes either way)
IsRoundedMean(avg, sum, n) == 2 * Abs(avg * n - sum) <= n

\* C13: the average calories and protein of the weekly aggregators are the
\* mean (as reported, to the nearest integer) of the per-date totals over
\* exactly the dates of the range that have a record with nonzero calories
C13_MeanOverDatesWithFood ==
    DatesWithFood # {} =>
        /\ coachAnalytics.ran =>
              /\ IsRoundedMean(coachAnalytics.avg_calories, FoodCalories,
                               Cardinality(DatesWithFood))
              /\ IsRoundedMean(coachAnalytics.avg_protein, FoodProtein,
                               Cardinality(DatesWithFood))
        /\ weekSummary.ran =>
              /\ IsRoundedMean(weekSummary.avgCalories, FoodCalories,
                               Cardinality(DatesWithFood))
              /\ IsRoundedMean(weekSummary.avgProtein, FoodProtein,
                               Cardinality(DatesWithFood))

\* C14: the reported deficits satisfy dailyDeficit = averageCalories -
\* maintenanceCalories and weeklyDeficit = dailyDeficit * daysLogged, with
\* the reported count of dates with food
C14_DeficitIdentities ==
    coachAnalytics.ran =>
        /\ coachAnalytics.days_logged = Cardinality(DatesWithFood)
        /\ coachAnalytics.daily_deficit = coachAnalytics.avg_calories - weekMaintenance
        /\ coachAnalytics.weekly_deficit =
              coachAnalytics.daily_deficit * coachAnalytics.days_logged

\* ------------------------------------------------------------------------
\* Claims about corner inputs of the grouping (SpecCorner)
\* ------------------------------------------------------------------------
\* the name has no kept word: empty, only stop words, or only short words
Wordless(entry) == getWords(entry.name) = {}

\* C21: with a positive threshold a record whose name has no kept word never
\* joins a cluster and nothing joins the cluster it seeds, even a record with
\* the same name and nutrition; it is never returned when minOccurrences >= 2
C21_WordlessStaysAlone ==
    (runs >= 1 /\ similarityThreshold[1] > 0) =>
        /\ \A k \in 1..Len(groups) :
              (\E m \in 1..Len(groups[k]) : Wordless(groups[k][m])) => Len(groups[k]) = 1
        /\ (pc = "done" /\ minOccurrences >= 2) =>
              \A i \in 1..Len(result) : getWords(result[i].name) # {}

\* two records with the same wordless name and the same nutrition ended in
\* two clusters and none was returned
C21_Witness ==
    /\ pc = "done"
    /\ minOccurrences = 2
    /\ similarityThreshold = <<1, 2>>
    /\ result = <<>>
    /\ \E k \in 1..Len(groups) : \E k2 \in (k + 1)..Len(groups) :
          /\ Wordless(groups[k][1])
          /\ groups[k][1].name # <<>>
          /\ groups[k2][1].name = groups[k][1].name
          /\ groups[k2][1].calories = groups[k][1].calories
          /\ groups[k2][1].protein = groups[k][1].protein

\* ------------------------------------------------------------------------
\* More claims about the grouping of near-duplicate foods (SpecEdge)
\* ------------------------------------------------------------------------
\* the sums over all members of the group behind the i-th returned item
MemberCalories(i) ==
    SumSeq([m \in 1..Len(groups[origin[i]]) |-> groups[origin[i]][m].calories])
MemberProtein(i) ==
    SumSeq([m \in 1..Len(groups[origin[i]]) |-> groups[origin[i]][m].protein])

\* avg is sum / n rounded to the nearest integer, a half going up:
\* avg - 1/2 <= sum / n < avg + 1/2
IsMeanRoundedHalfUp(avg, sum, n) ==
    2 * avg * n - n <= 2 * sum /\ 2 * sum < 2 * avg * n + n

\* C22: the average calories and protein of a returned cluster are the mean
\* over all its members, the representative included, rounded once to the
\* nearest integer with halves up
C22_RoundedMeans ==
    pc = "done" =>
        \A i \in 1..Len(result) :
            /\ result[i].count = Len(groups[origin[i]])
            /\ IsMeanRoundedHalfUp(result[i].calories, MemberCalories(i), result[i].count)
            /\ IsMeanRoundedHalfUp(result[i].protein, MemberProtein(i), result[i].count)

\* a returned cluster of several members whose mean protein ends in a half
\* and whose members differ in calories
C22_Witness ==
    /\ pc = "done"
    /\ \E i \in 1..Len(result) :
          /\ result[i].count >= 2
          /\ 2 * MemberProtein(i) = 2 * result[i].protein * result[i].count - result[i].count
          /\ result[i].calories # groups[origin[i]][1].calories

\* the places <<k, m>> of the groups that hold the j-th input record
PlacesOf(j) ==
    {km \in UNION {{<<k, m>> : m \in 1..Len(groups[k])} : k \in 1..Len(groups)} :
        groups[km[1]][km[2]] = allEntries[j]}

GroupSizes == SumSeq([k \in 1..Len(groups) |-> Len(groups[k])])
ReturnedCounts == SumSeq([i \in 1..Len(result) |-> result[i].count])

\* C23: at every step of the scan the groups partition the records processed
\* so far: every processed record is in exactly one group, no group is empty
\* and none holds another record, the sizes add up to the number processed;
\* the returned counts add up to at most the number of input records
C23_GroupsPartitionProcessed ==
    runs >= 1 =>
        /\ \A k \in 1..Len(groups) : Len(groups[k]) >= 1
        /\ \A j \in 1..(idx - 1) : Cardinality(PlacesOf(j)) = 1
        /\ \A j \in idx..Len(allEntries) : PlacesOf(j) = {}
        /\ GroupSizes = idx - 1
        /\ pc = "done" => ReturnedCounts <= Len(Flatten(allData))

\* the scan has placed three records in two groups and the group of two was
\* returned alone
C23_Witness ==
    /\ pc = "done"
    /\ idx = 4
    /\ Len(groups) = 2
    /\ ReturnedCounts = 2

\* C24: the protein gate is evaluated with the incoming record first: every
\* later member m of a group with representative r satisfies
\* |m.protein - r.protein| / max(m.protein, 1) < 0.15
C24_ProteinGateOnIncoming ==
    \A k \in 1..Len(groups) :
       \A m \in 2..Len(groups[k]) :
          20 * Abs(groups[k][m].protein - groups[k][1].protein)
             < 3 * Max(groups[k][m].protein, 1)

\* a member joined whose protein differs from the representative's by less
\* than 15% of its own protein but by more than 15% of the representative's
C24_Witness ==
    \E k \in 1..Len(groups) :
       \E m \in 2..Len(groups[k]) :
          /\ 20 * Abs(groups[k][m].protein - groups[k][1].protein)
                < 3 * Max(groups[k][m].protein, 1)
          /\ 20 * Abs(groups[k][m].protein - groups[k][1].protein)
                > 3 * Max(groups[k][1].protein, 1)

\* C25: two records without calories are never nutritionally similar, so no
\* group whose representative has 0 calories holds another record with 0
\* calories, whatever the names and the protein values
C25_ZeroCaloriesNeverJoin ==
    \A k \in 1..Len(groups) :
       \A m \in 2..Len(groups[k]) :
          ~(groups[k][1].calories = 0 /\ groups[k][m].calories = 0)

\* the same zero-calorie food logged twice seeded two groups, with a
\* threshold its name similarity meets
C25_Witness ==
    /\ pc = "done"
    /\ similarityThreshold = <<1, 2>>
    /\ \E k \in 1..Len(groups) : \E k2 \in (k + 1)..Len(groups) :
          /\ groups[k][1].calories = 0
          /\ groups[k2][1].calories = 0
          /\ groups[k][1].name = groups[k2][1].name
          /\ groups[k][1].protein = groups[k2][1].protein
          /\ getWords(groups[k][1].name) # {}

\* ------------------------------------------------------------------------
\* Claims relating the two calorie classifications (SpecColors)
\* ------------------------------------------------------------------------
\* C26: the daily indicator and the weekly bar show the same tier for every
\* actual, target and maintenance calories >= 0
C26_SameCalorieTier ==
    (calorieColor # "unset" /\ caloriesBar # "unset") =>
        Tier(calorieColor) = Tier(caloriesBar)

\* tiers from best to worst
Rank(tier) ==
    CASE tier = "OnTrack" -> 0
      [] tier = "Approaching" -> 1
      [] tier = "OffTrack" -> 2
      [] OTHER -> 3

\* the side of the target that the goal asks for
OnGoodSide(actual, target, maintenance) ==
    \/ (target < maintenance /\ actual < target)
    \/ (target > maintenance /\ actual > target)
OnBadSide(actual, target, maintenance) ==
    \/ (target < maintenance /\ actual > target)
    \/ (target > maintenance /\ actual < target)

\* b is on the same side of the target as a, and farther from it
FartherOnSameSide(b, a, target) ==
    \/ (a >= target /\ b > a)
    \/ (a <= target /\ b < a)

\* the tier shown for the day's intake is no worse than the tier of the
\* mirrored intake when the day is on the good side, and no better than the
\* tier of any intake nearer to the target on the same side
NeverWorseThanMirror(shown, otherTier(_)) ==
    /\ OnGoodSide(totals.calories, targetCalories, maintenanceCalories) =>
          \A b \in 1..MaxActual :
             b + totals.calories = 2 * targetCalories =>
                Rank(shown) <= Rank(otherTier(b))
    /\ \A b \in 1..MaxActual :
          FartherOnSameSide(b, totals.calories, targetCalories) =>
             Rank(shown) <= Rank(otherTier(b))

DailyTierOf(b) == Tier(getCalorieColor(b, targetCalories, maintenanceCalories))
WeeklyTierOf(b) == Tier(caloriesBarColor(b, targetCalories, maintenanceCalories))

ComparableDay ==
    /\ totals.calories > 0
    /\ targetCalories # maintenanceCalories

\* C27 as claimed: for target # maintenance the good side never gets a worse
\* tier than the bad side at the same distance, and moving farther from the
\* target never improves the tier, in the daily indicator and the weekly bar
C27_AsClaimed ==
    ComparableDay =>
        /\ calorieColor # "unset" => NeverWorseThanMirror(Tier(calorieColor), DailyTierOf)
        /\ caloriesBar # "unset" => NeverWorseThanMirror(Tier(caloriesBar), WeeklyTierOf)

\* C27 (amended): the same, for the weekly bar with every maintenance >= 0
\* and for the daily indicator with a maintenance > 0
C27_GoodSideNeverWorse ==
    ComparableDay =>
        /\ (calorieColor # "unset" /\ maintenanceCalories > 0) =>
              NeverWorseThanMirror(Tier(calorieColor), DailyTierOf)
        /\ caloriesBar # "unset" => NeverWorseThanMirror(Tier(caloriesBar), WeeklyTierOf)

\* a day 7.5% under a deficit target is Approaching in both places while the
\* day 7.5% over it is OffTrack
C27_Witness ==
    /\ calorieColor # "unset"
    /\ caloriesBar # "unset"
    /\ ComparableDay
    /\ targetCalories < maintenanceCalories
    /\ totals.calories * 1000 = 925 * targetCalories
    /\ Tier(calorieColor) = "Approaching"
    /\ Tier(caloriesBar) = "Approaching"
    /\ 2 * targetCalories - totals.calories <= MaxActual
    /\ DailyTierOf(2 * targetCalories - totals.calories) = "OffTrack"
    /\ WeeklyTierOf(2 * targetCalories - totals.calories) = "OffTrack"

\* ------------------------------------------------------------------------
\* Claims about the offline queue (SpecQueue)
\* ------------------------------------------------------------------------
\* the operations of queue whose database call failed, in queue order
RECURSIVE KeepFailed(_, _)
KeepFailed(queue, outcomes) ==
    IF queue = <<>> THEN <<>>
    ELSE IF Head(outcomes)
         THEN KeepFailed(Tail(queue), Tail(outcomes))
         ELSE <<Head(queue)>> \o KeepFailed(Tail(queue), Tail(outcomes))

\* C28: when a run of processQueue completes online with nothing else
\* interleaved, the stored queue holds exactly the operations whose call
\* failed, in their original order, and the key is deleted when none failed;
\* a run started offline issues no database call and leaves the queue as is
C28_ProcessQueueAlone ==
    [][\A p \in Runs :
          /\ (procs[p].pc = "await" /\ procs'[p].pc = "done" /\ procs'[p].alone) =>
                LET failed == KeepFailed(procs'[p].queue, procs'[p].outcomes)
                IN  /\ offlineQueue = [present |-> TRUE, ops |-> procs'[p].queue]
                    /\ Len(procs'[p].outcomes) = Len(procs'[p].queue)
                    /\ failed # <<>> => offlineQueue' = [present |-> TRUE, ops |-> failed]
                    /\ failed = <<>> => ~offlineQueue'.present
                    /\ \A n \in 1..Len(procs'[p].queue) :
                          procs'[p].outcomes[n] =>
                             /\ procs'[p].queue[n] \notin Range(CachedQueue(offlineQueue'))
                             /\ dbApplied'[procs'[p].queue[n]] >= 1
          /\ (procs[p].pc = "idle" /\ procs'[p].pc = "done" /\ ~online') =>
                /\ dbCalls' = dbCalls
                /\ offlineQueue' = offlineQueue]_vars

\* a run alone on three operations, of which the second succeeded, has left
\* the first and the third in the stored queue
C28_Witness ==
    \E p \in Runs :
       /\ procs[p].pc = "done"
       /\ procs[p].alone
       /\ procs[p].queue = <<1, 2, 3>>
       /\ procs[p].outcomes = <<FALSE, TRUE, FALSE>>
       /\ offlineQueue = [present |-> TRUE, ops |-> <<1, 3>>]
       /\ dbApplied[2] = 1

\* C29: an operation added by queueOperation is never lost: it is in the
\* stored queue or has been applied to the database, under any interleaving
\* of queueOperation with a run of processQueue
C29_NoOperationLost ==
    \A op \in 1..(nextOp - 1) :
       op \in Range(CachedQueue(offlineQueue)) \/ dbApplied[op] >= 1

\* C30: every queued operation is successfully applied to the database at
\* most once, even when two runs of processQueue overlap
C30_AppliedAtMostOnce ==
    \A op \in DOMAIN dbApplied : dbApplied[op] <= 1
====
